---- MODULE Spec2Model ----
(***************************************************************************)
(* Broadcast delivery pipeline of dvorik2: the admin operations of         *)
(* services/broadcast_service.py, the Broadcast state machine of           *)
(* models/broadcast.py, the poller of tasks/scheduled_broadcast_tasks.py   *)
(* and the Celery tasks of tasks/broadcast_tasks.py.                       *)
(*                                                                         *)
(* Every actor works in its own database session: it loads the broadcast   *)
(* row into a private object, changes that object and writes the changed   *)
(* columns back with UPDATE ... WHERE id = ?.  The rows are in `db`, the    *)
(* private objects are fields of the actors' records.                      *)
(***************************************************************************)
EXTENDS Integers, Sequences, FiniteSets, TLC

(* ------------------------------ bounds -------------------------------- *)
NumUsers == 3          \* users 1..NumUsers exist
MaxNow == 2            \* the clock runs 0..MaxNow
MaxSchedules == 2      \* schedule_broadcast requests accepted per run
MaxTriggers == 2       \* poller runs plus send-now requests per run
MaxFaults == 1          \* infrastructure failures per run of the whole pipeline
MaxPassFaults == 4      \* infrastructure failures per run of one delivery
MaxIds == 6             \* users in the table when the split is examined

(* ------------------------- program constants -------------------------- *)
\* tasks/broadcast_tasks.py:16 has CHUNK_SIZE = 1000; the model scales the
\* chunk size down so that an audience of NumUsers users makes several chunks.
CHUNK_SIZE == 2
\* tasks/broadcast_tasks.py:26, BroadcastTask.max_retries
max_retries == 3

Users == 1..NumUsers
Ticks == {1, 2}        \* two workers that can each run the poller task

NULL == 0              \* a send_at / sent_at column that is not set

\* models/broadcast.py, BroadcastStatus
BroadcastStatus == {"draft", "scheduled", "sending", "sent", "error"}
\* models/broadcast.py, BroadcastMediaType
BroadcastMediaType == {"none", "photo", "video", "document"}

\* The mapped attributes of the Broadcast class (models/broadcast.py and its
\* base class models/base.py).  Reading any other attribute of a Broadcast
\* instance raises AttributeError.
BroadcastAttrs ==
    {"id", "created_at", "updated_at", "is_test", "title", "content",
     "media_type", "media_file_id", "buttons", "filters", "segment_id",
     "status", "send_at", "sent_at", "recipient_count", "success_count",
     "error_count", "created_by_admin_id", "created_by", "segment"}

VARIABLES
    now,        \* the clock (UTC)
    db,         \* the committed rows of table broadcasts
    user_table, \* the rows of table users
    segments,   \* the rows of table segments
    reply,      \* what the Bot API answers to a send to each user
    sendnow,    \* per broadcast: the session of a send-now request in flight
    ticks,      \* per poller worker: the state of its check_scheduled_broadcasts run
    procs,      \* the process_broadcast tasks ever enqueued, in order
    chunks,     \* the send_broadcast_chunk tasks ever enqueued, in order
    left,       \* what is left of each bound: [schedules, triggers, faults]
    dispatched, \* history: process_broadcast tasks enqueued per broadcast since it was last scheduled
    reportedS,  \* history: sum of the success deltas the chunk workers committed
    reportedE,  \* history: sum of the error deltas the chunk workers committed
    ret,        \* the last admin request: the operation, its broadcast and what it returned
    http        \* a call of TelegramClient.make_request: the API's answers, the attempts made

vars == <<now, db, user_table, segments, reply, sendnow, ticks, procs, chunks,
          left, dispatched, reportedS, reportedE, ret, http>>

\* The rows of table broadcasts, by id.
Broadcasts == DOMAIN db

(* ----------------------- Broadcast state machine ---------------------- *)
\* A table that also lets a broadcast in sending be scheduled again.
allowed_transitions_from_sending(status) ==
    CASE status = "draft"     -> {"scheduled"}
      [] status = "scheduled" -> {"sending"}
      [] status = "sending"   -> {"sent", "error", "scheduled"}
      [] status = "sent"      -> {"scheduled"}
      [] status = "error"     -> {"scheduled"}
      [] OTHER                -> {}

\* Broadcast.can_transition_to: the allowed_transitions table.
allowed_transitions(status) ==
    CASE status = "draft"     -> {"scheduled"}
      [] status = "scheduled" -> {"sending"}
      [] status = "sending"   -> {"sent", "error"}
      [] status = "sent"      -> {"scheduled"}
      [] status = "error"     -> {"scheduled"}
      [] OTHER                -> {}

can_transition_to(status, new_status) ==
    new_status \in allowed_transitions(status)

\* Broadcast.transition_to on an object whose loaded status is `status`: the
\* columns the call makes dirty, as a record of column |-> new value (empty
\* when the transition is refused).
transition_to(status, new_status, utcnow) ==
    IF can_transition_to(status, new_status)
    THEN IF new_status = "sent"
         THEN [status |-> new_status, sent_at |-> utcnow]
         ELSE [status |-> new_status]
    ELSE << >>

\* UPDATE broadcasts SET <dirty columns> WHERE id = ?: the row with the dirty
\* columns of the session's object written over it, whatever the row holds.
Flush(row, dirty) ==
    [col \in DOMAIN row |-> IF col \in DOMAIN dirty THEN dirty[col] ELSE row[col]]

\* A row is write-locked while a send-now request has flushed its UPDATE and
\* not yet committed; every other UPDATE of the row waits for that commit.
Locked(b) == sendnow[b] = "flushed"

(* --------------------------- audience ---------------------------------- *)
\* A split that starts every chunk after the first one id too late.
SplitChunksSkipsOne(ids) ==
    [j \in 1..((Len(ids) + CHUNK_SIZE - 1) \div CHUNK_SIZE) |->
        SubSeq(ids, IF j = 1 THEN 1 ELSE (j - 1) * CHUNK_SIZE + 2,
                    IF j * CHUNK_SIZE < Len(ids) THEN j * CHUNK_SIZE ELSE Len(ids))]

RECURSIVE SortedSeq(_)
SortedSeq(S) ==
    IF S = {} THEN << >>
    ELSE LET m == CHOOSE x \in S : \A y \in S : x <= y
         IN <<m>> \o SortedSeq(S \ {m})

\* The users with status active that are no test data: the base query of
\* get_recipients and count_recipients for is_test = False.
active == {u \in DOMAIN user_table : user_table[u].status = "active" /\ ~user_table[u].is_test}

\* A filters column that is None or an empty dict (both are false in `if`).
NoFilters == << >>

\* An evaluate_segment whose status clause selects from the whole table.
evaluate_segment_status_from_table(query, definition) ==
    IF "status" \in DOMAIN definition
    THEN {u \in DOMAIN user_table : user_table[u].status = definition.status}
    ELSE query

\* services/segment_service.py evaluate_segment: a where clause is added to
\* the query for each of the keys it knows that the definition holds; `query`
\* is the set of users the query selects.  A tags list that is empty adds no
\* clause; any other key of the definition is not looked at.
evaluate_segment(query, definition) ==
    LET q1 == IF "status" \in DOMAIN definition
              THEN {u \in query : user_table[u].status = definition.status}
              ELSE query
        q2 == IF "is_subscribed" \in DOMAIN definition
              THEN {u \in q1 : user_table[u].is_subscribed = definition.is_subscribed}
              ELSE q1
        q3 == IF "tags" \in DOMAIN definition /\ definition.tags # {}
              THEN {u \in q2 : \E tag \in definition.tags : tag \in user_table[u].tags}
              ELSE q2
        q4 == IF "source" \in DOMAIN definition
              THEN {u \in q3 : user_table[u].source = definition.source}
              ELSE q3
        q4n == IF "source_normalized" \in DOMAIN definition
               THEN {u \in q4 : user_table[u].source_normalized = definition.source_normalized}
               ELSE q4
        q5 == IF "gender" \in DOMAIN definition
              THEN {u \in q4n : user_table[u].gender = definition.gender}
              ELSE q4n
        q6 == IF "birthday_month" \in DOMAIN definition
              THEN {u \in q5 : user_table[u].birthday_month = definition.birthday_month}
              ELSE q5
        q7 == IF "created_after" \in DOMAIN definition
              THEN {u \in q6 : user_table[u].created_at >= definition.created_after}
              ELSE q6
    IN IF "created_before" \in DOMAIN definition
       THEN {u \in q7 : user_table[u].created_at <= definition.created_before}
       ELSE q7

\* A get_recipients that applies the inline filter after the segment.
get_recipients_segment_and_filters(row) ==
    LET query == {u \in DOMAIN user_table : user_table[u].status = "active"
                                            /\ user_table[u].is_test = row.is_test}
        seg == IF row.segment_id \in DOMAIN segments /\ ~segments[row.segment_id].deleted
               THEN evaluate_segment(query, segments[row.segment_id].definition)
               ELSE query
    IN SortedSeq(evaluate_segment(seg, row.filters))

\* A get_recipients that also reads the clock: it leaves out the users
\* created after the current time.
get_recipients_created_before_now(row) ==
    LET query == {u \in DOMAIN user_table : user_table[u].status = "active"
                                            /\ user_table[u].is_test = row.is_test
                                            /\ user_table[u].created_at <= now}
    IN SortedSeq(
         IF row.segment_id # NULL
         THEN IF row.segment_id \in DOMAIN segments /\ ~segments[row.segment_id].deleted
              THEN evaluate_segment(query, segments[row.segment_id].definition)
              ELSE query
         ELSE IF DOMAIN row.filters # {}
              THEN evaluate_segment(query, row.filters)
              ELSE query)

\* services/broadcast_service.py get_recipients: the base query (status
\* active, is_test as the broadcast's); if the broadcast has a segment_id the
\* segment is looked up and, when found, its definition is applied; else if
\* it has filters they are applied.
get_recipients(row) ==
    LET query == {u \in DOMAIN user_table : user_table[u].status = "active"
                                            /\ user_table[u].is_test = row.is_test}
    IN SortedSeq(
         IF row.segment_id # NULL
         THEN IF row.segment_id \in DOMAIN segments /\ ~segments[row.segment_id].deleted
              THEN evaluate_segment(query, segments[row.segment_id].definition)
              ELSE query
         ELSE IF DOMAIN row.filters # {}
              THEN evaluate_segment(query, row.filters)
              ELSE query)

\* services/broadcast_service.py count_recipients over the table `table`, as
\* create_broadcast_endpoint calls it (is_test = False): the segment and
\* filter branches are `pass`, so the count is that of the base query.
count_recipients(table, filters, segment_id) ==
    Cardinality({u \in DOMAIN table : table[u].status = "active" /\ ~table[u].is_test})

(* ------------------------------ chunks --------------------------------- *)
\* recipient_ids[i:i + CHUNK_SIZE] for i in range(0, len(recipient_ids), CHUNK_SIZE)
RECURSIVE SplitChunks(_)
SplitChunks(ids) ==
    IF Len(ids) = 0 THEN << >>
    ELSE IF Len(ids) <= CHUNK_SIZE THEN <<ids>>
    ELSE <<SubSeq(ids, 1, CHUNK_SIZE)>>
         \o SplitChunks(SubSeq(ids, CHUNK_SIZE + 1, Len(ids)))

(* ------------------------ one recipient of a pass ---------------------- *)
\* The branch of send_broadcast_chunk's if/elif chain a media type selects.
\* The code compares with "text", which is no member of BroadcastMediaType.
SendMethod(media_type) ==
    CASE media_type = "text"  -> "send_message"
      [] media_type = "photo" -> "send_photo"
      [] media_type = "video" -> "send_video"
      [] OTHER                -> "no_call"

\* The attributes of the broadcast object the selected call's arguments read.
ArgAttrs(method) ==
    CASE method = "send_message" -> {"message", "inline_keyboard"}
      [] method = "send_photo"   -> {"media_file_id", "message", "inline_keyboard"}
      [] method = "send_video"   -> {"media_file_id", "message", "inline_keyboard"}
      [] OTHER                   -> {}

\* What the try block does for one user: "success" when it falls through to
\* success_count += 1, otherwise the exception it raises.  `sends` is the
\* number of outbound calls it made.
TryBody(media_type, api_reply) ==
    LET method == SendMethod(media_type) IN
    IF method = "no_call" THEN [result |-> "success", sends |-> 0]
    ELSE IF ~(ArgAttrs(method) \subseteq BroadcastAttrs)
         THEN [result |-> "attribute_error", sends |-> 0]
    ELSE IF api_reply = "ok" THEN [result |-> "success", sends |-> 1]
    ELSE [result |-> api_reply, sends |-> 1]

\* An except block that lets every exception but the 403 leave the pass.
ClassifyRaisesOther(result) ==
    CASE result = "success" -> "count_success"
      [] result = "blocked" -> "count_error"
      [] OTHER              -> "raise"

\* The except block: what happens to the pass for an exception.
\*   "403" in str(e) or "blocked" in str(e).lower()  -> error_count += 1; continue
\*   "429" in str(e)                                   -> raise
\*   anything else                                     -> error_count += 1
Classify(result) ==
    CASE result = "success"      -> "count_success"
      [] result = "blocked"      -> "count_error"
      [] result = "rate_limited" -> "raise"
      [] OTHER                   -> "count_error"

\* The for loop over the users of a chunk, from position i with the counts so
\* far: the pass's success_count, error_count, outbound calls, the users
\* counted in each counter, and whether the pass ended by raising.
RECURSIVE SendLoop(_, _, _, _)
SendLoop(media_type, users, i, acc) ==
    IF i > Len(users) THEN acc
    ELSE LET r == TryBody(media_type, reply[users[i]])
             k == Classify(r.result)
         IN IF k = "raise"
            THEN [acc EXCEPT !.sends = @ + r.sends, !.raised = TRUE]
            ELSE SendLoop(media_type, users, i + 1,
                   [acc EXCEPT !.sends = @ + r.sends,
                               !.s = IF k = "count_success" THEN @ + 1 ELSE @,
                               !.e = IF k = "count_error" THEN @ + 1 ELSE @,
                               !.ok = IF k = "count_success" THEN @ \cup {users[i]} ELSE @,
                               !.bad = IF k = "count_error" THEN @ \cup {users[i]} ELSE @])

Pass0 == [s |-> 0, e |-> 0, sends |-> 0, ok |-> {}, bad |-> {}, raised |-> FALSE]

(* ------------------------------- Init ---------------------------------- *)
\* The inline filters the model draws from: none (every user matches) and the
\* tag vip, which only user 1 has.
Targets == {NoFilters, [tags |-> {"vip"}]}

\* A row of table users: user 1 has the tag vip, the others have no tag.
PlainUser(u, status) ==
    [status |-> status, is_test |-> FALSE,
     tags |-> IF u = 1 THEN {"vip"} ELSE {},
     is_subscribed |-> FALSE, source |-> "none", source_normalized |-> "none",
     gender |-> "unknown",
     birthday_month |-> NULL, created_at |-> 0]

\* A table of users in which the users of `actives` are active and the
\* others blocked.
UserTable(ids, actives) ==
    [u \in ids |-> PlainUser(u, IF u \in actives THEN "active" ELSE "blocked")]

\* No segment exists.
NoSegments == << >>

\* The Bot API's behaviour the model draws from: it accepts every send; user 1
\* has blocked the bot (403); it throttles the bot (429 to every send); a
\* send to user 1 runs into the client's timeout.
Replies ==
    {[u \in Users |-> "ok"],
     [u \in Users |-> IF u = 1 THEN "blocked" ELSE "ok"],
     [u \in Users |-> "rate_limited"],
     [u \in Users |-> IF u = 1 THEN "timeout" ELSE "ok"]}

\* routers/broadcasts.py create_broadcast_endpoint: a broadcast is created in
\* draft with recipient_count = count_recipients(...) and zeroed counters.
NewBroadcast(media_type, filters, table) ==
    [status |-> "draft", send_at |-> NULL, sent_at |-> NULL,
     recipient_count |-> count_recipients(table, filters, NULL),
     success_count |-> 0, error_count |-> 0,
     media_type |-> media_type, filters |-> filters, segment_id |-> NULL,
     is_test |-> FALSE]

IdleTick == [pc |-> "idle", todo |-> << >>]

NoBudget == [schedules |-> 0, triggers |-> 0, faults |-> 0]

\* No admin request was made yet.
NoRequest == [op |-> "none", b |-> 0, value |-> "none"]

\* No call of make_request is under way.
NoCall == [answers |-> << >>, attempt |-> 0, slept |-> << >>, st |-> "idle"]

\* The whole pipeline from a fresh draft: users 1..NumUsers-1 are active, the
\* last user is not (status blocked), the Bot API accepts every send.
Init ==
    /\ now = 0
    /\ user_table = UserTable(Users, Users \ {NumUsers})
    /\ segments = NoSegments
    /\ reply = [u \in Users |-> "ok"]
    /\ db = [b \in {1} |-> NewBroadcast("none", NoFilters, user_table)]
    /\ sendnow = [b \in Broadcasts |-> "none"]
    /\ ticks = [t \in Ticks |-> IdleTick]
    /\ procs = << >>
    /\ chunks = << >>
    /\ left = [schedules |-> MaxSchedules, triggers |-> MaxTriggers,
               faults |-> MaxFaults]
    /\ dispatched = [b \in Broadcasts |-> 0]
    /\ reportedS = [b \in Broadcasts |-> 0]
    /\ reportedE = [b \in Broadcasts |-> 0]
    /\ ret = NoRequest
    /\ http = NoCall

(* ------------------------------ the clock ------------------------------ *)
Advance ==
    /\ now < MaxNow
    /\ now' = now + 1
    /\ UNCHANGED <<db, user_table, segments, reply, sendnow, ticks, procs, chunks, left, dispatched, reportedS, reportedE, ret, http>>

(* --------------------------- admin operations -------------------------- *)
\* The BroadcastUpdate payloads the model draws from: one content field
\* (media_type) or the targeting rule.
UpdateData ==
    {[media_type |-> m] : m \in BroadcastMediaType}
    \cup {[filters |-> tg] : tg \in Targets}

\* What a request returns: the broadcast, or None when it is rejected.
Returned(op, b, value) == [op |-> op, b |-> b, value |-> value]

\* An update_broadcast without the test of the status.
update_broadcast_any_status(b, data) ==
    /\ ~Locked(b)
    /\ Flush(db[b], data) # db[b]
    /\ db' = [db EXCEPT ![b] = Flush(@, data)]
    /\ ret' = Returned("update_broadcast", b, "broadcast")
    /\ UNCHANGED <<now, user_table, segments, reply, sendnow, ticks, procs, chunks, left, dispatched, reportedS, reportedE, http>>

\* services/broadcast_service.py update_broadcast, with the commit of the
\* endpoint: unless the status is draft the function returns None; else the
\* fields of the payload are set (status is no field of BroadcastUpdate).
update_broadcast(b, data) ==
    /\ IF db[b].status # "draft"
       THEN /\ ret' = Returned("update_broadcast", b, "None")
            /\ UNCHANGED db
       ELSE /\ ~Locked(b)
            /\ Flush(db[b], data) # db[b]
            /\ db' = [db EXCEPT ![b] = Flush(@, data)]
            /\ ret' = Returned("update_broadcast", b, "broadcast")
    /\ UNCHANGED <<now, user_table, segments, reply, sendnow, ticks, procs, chunks, left, dispatched, reportedS, reportedE, http>>

\* services/broadcast_service.py schedule_broadcast, with the commit of
\* schedule_broadcast_endpoint.  When can_transition_to(SCHEDULED) is false
\* the function returns None before it changes the object.
\* A schedule_broadcast that writes the status and leaves send_at as it is.
schedule_broadcast_keeps_send_at(b, send_at) ==
    /\ IF ~can_transition_to(db[b].status, "scheduled")
       THEN /\ ret' = Returned("schedule_broadcast", b, "None")
            /\ UNCHANGED <<db, left, dispatched>>
       ELSE /\ left.schedules > 0
            /\ ~Locked(b)
            /\ db' = [db EXCEPT ![b] =
                        Flush(@, transition_to(db[b].status, "scheduled", now))]
            /\ left' = [left EXCEPT !.schedules = @ - 1]
            /\ dispatched' = [dispatched EXCEPT ![b] = 0]
            /\ ret' = Returned("schedule_broadcast", b, "broadcast")
    /\ UNCHANGED <<now, user_table, segments, reply, sendnow, ticks, procs, chunks, reportedS, reportedE, http>>

\* A schedule_broadcast that starts the next episode afresh: it also zeroes
\* the counters and clears sent_at.
schedule_broadcast_resets_counters(b, send_at) ==
    /\ IF ~can_transition_to(db[b].status, "scheduled")
       THEN /\ ret' = Returned("schedule_broadcast", b, "None")
            /\ UNCHANGED <<db, left, dispatched>>
       ELSE /\ left.schedules > 0
            /\ ~Locked(b)
            /\ db' = [db EXCEPT ![b] =
                        Flush(@, transition_to(db[b].status, "scheduled", now)
                                 @@ [send_at |-> send_at, sent_at |-> NULL,
                                     success_count |-> 0, error_count |-> 0])]
            /\ left' = [left EXCEPT !.schedules = @ - 1]
            /\ dispatched' = [dispatched EXCEPT ![b] = 0]
            /\ ret' = Returned("schedule_broadcast", b, "broadcast")
    /\ UNCHANGED <<now, user_table, segments, reply, sendnow, ticks, procs, chunks, reportedS, reportedE, http>>

schedule_broadcast(b, send_at) ==
    /\ IF ~can_transition_to(db[b].status, "scheduled")
       THEN /\ ret' = Returned("schedule_broadcast", b, "None")
            /\ UNCHANGED <<db, left, dispatched>>
       ELSE /\ left.schedules > 0
            /\ ~Locked(b)
            /\ db' = [db EXCEPT ![b] =
                        Flush(@, transition_to(db[b].status, "scheduled", now)
                                 @@ [send_at |-> send_at])]
            /\ left' = [left EXCEPT !.schedules = @ - 1]
            /\ dispatched' = [dispatched EXCEPT ![b] = 0]
            /\ ret' = Returned("schedule_broadcast", b, "broadcast")
    /\ UNCHANGED <<now, user_table, segments, reply, sendnow, ticks, procs, chunks, reportedS, reportedE, http>>

\* A process_broadcast task in the queue.  `recipients` will hold what its
\* call of get_recipients returned, `seen` the data the call read.
NewProc(b) == [b |-> b, st |-> "queued", recipients |-> << >>, seen |-> << >>]

\* The data a call of get_recipients for the row reads: the tables users and
\* segments and the row's targeting columns.
ResolverInput(row) ==
    [user_table |-> user_table, segments |-> [s \in DOMAIN segments |->
                                                [definition |-> segments[s].definition,
                                                 deleted |-> segments[s].deleted]],
     filters |-> row.filters, segment_id |-> row.segment_id, is_test |-> row.is_test]

\* services/broadcast_service.py send_broadcast_now up to its return: the
\* status is flushed (not committed) and process_broadcast is enqueued.  When
\* can_transition_to(SENDING) is false the function returns None before it
\* changes the object or enqueues anything.
send_broadcast_now(b) ==
    /\ sendnow[b] = "none"
    /\ IF ~can_transition_to(db[b].status, "sending")
       THEN /\ ret' = Returned("send_broadcast_now", b, "None")
            /\ UNCHANGED <<sendnow, procs, dispatched, left>>
       ELSE /\ left.triggers > 0
            /\ sendnow' = [sendnow EXCEPT ![b] = "flushed"]
            /\ procs' = Append(procs, NewProc(b))
            /\ dispatched' = [dispatched EXCEPT ![b] = @ + 1]
            /\ left' = [left EXCEPT !.triggers = @ - 1]
            /\ ret' = Returned("send_broadcast_now", b, "broadcast")
    /\ UNCHANGED <<now, db, user_table, segments, reply, ticks, chunks, reportedS, reportedE, http>>

\* routers/broadcasts.py send_broadcast_now_endpoint: await db.commit() after
\* send_broadcast_now returned.
send_broadcast_now_commit(b) ==
    /\ sendnow[b] = "flushed"
    /\ db' = [db EXCEPT ![b] = Flush(@, transition_to("scheduled", "sending", now))]
    /\ sendnow' = [sendnow EXCEPT ![b] = "none"]
    /\ UNCHANGED <<now, user_table, segments, reply, ticks, procs, chunks, left, dispatched, reportedS, reportedE, ret, http>>

(* ------------------------ the scheduler (poller) ----------------------- *)
\* check_scheduled_broadcasts._check up to the loop: the rows with status
\* scheduled and send_at <= now are loaded into the run's session.
Due == {b \in Broadcasts : db[b].status = "scheduled"
                           /\ db[b].send_at # NULL /\ db[b].send_at <= now}

TickSelect(t) ==
    /\ left.triggers > 0
    /\ ticks[t].pc = "idle"
    /\ left' = [left EXCEPT !.triggers = @ - 1]
    /\ ticks' = [ticks EXCEPT ![t] =
                   IF Due = {} THEN IdleTick
                   ELSE [pc |-> "loop", todo |-> SortedSeq(Due)]]
    /\ UNCHANGED <<now, db, user_table, segments, reply, sendnow, procs, chunks, dispatched, reportedS, reportedE, ret, http>>

NextBroadcast(tick) ==
    IF Len(tick.todo) > 1 THEN [pc |-> "loop", todo |-> Tail(tick.todo)]
    ELSE IdleTick

\* One iteration of the loop: the object was loaded with status scheduled;
\* transition_to(SENDING), commit, process_broadcast.delay.
TickClaim(t) ==
    /\ ticks[t].pc = "loop"
    /\ LET b == Head(ticks[t].todo) IN
        /\ ~Locked(b)
        /\ can_transition_to("scheduled", "sending")
        /\ db' = [db EXCEPT ![b] = Flush(@, transition_to("scheduled", "sending", now))]
        /\ procs' = Append(procs, NewProc(b))
        /\ dispatched' = [dispatched EXCEPT ![b] = @ + 1]
    /\ ticks' = [ticks EXCEPT ![t] = NextBroadcast(@)]
    /\ UNCHANGED <<now, user_table, segments, reply, sendnow, chunks, left, reportedS, reportedE, ret, http>>

\* The same iteration when process_broadcast.delay raises (broker not
\* reachable): the commit of sending is done, the except block runs next.
TickClaimFails(t) ==
    /\ ticks[t].pc = "loop"
    /\ left.faults > 0
    /\ LET b == Head(ticks[t].todo) IN
        /\ ~Locked(b)
        /\ can_transition_to("scheduled", "sending")
        /\ db' = [db EXCEPT ![b] = Flush(@, transition_to("scheduled", "sending", now))]
    /\ ticks' = [ticks EXCEPT ![t].pc = "except"]
    /\ left' = [left EXCEPT !.faults = @ - 1]
    /\ UNCHANGED <<now, user_table, segments, reply, sendnow, procs, chunks, dispatched, reportedS, reportedE, ret, http>>

\* The except block: rollback (nothing is pending), transition_to(ERROR) on
\* the object, whose status is sending, and commit.
TickMarkError(t) ==
    /\ ticks[t].pc = "except"
    /\ LET b == Head(ticks[t].todo) IN
        /\ ~Locked(b)
        /\ db' = [db EXCEPT ![b] = Flush(@, transition_to("sending", "error", now))]
    /\ ticks' = [ticks EXCEPT ![t] = NextBroadcast(@)]
    /\ UNCHANGED <<now, user_table, segments, reply, sendnow, procs, chunks, left, dispatched, reportedS, reportedE, ret, http>>

\* The same iteration when the commit of sending raises (the UPDATE fails):
\* the transaction is rolled back, which expires every object of the session.
\* Reading an attribute of an expired object needs a query, which an
\* AsyncSession cannot run from an attribute access: it raises.  So the
\* except block's logger.error(... broadcast.id ...) raises in its turn, the
\* exception leaves the loop and the run ends with the rest of its list
\* untouched.
TickCommitFails(t) ==
    /\ ticks[t].pc = "loop"
    /\ left.faults > 0
    /\ ~Locked(Head(ticks[t].todo))
    /\ ticks' = [ticks EXCEPT ![t] = IdleTick]
    /\ left' = [left EXCEPT !.faults = @ - 1]
    /\ UNCHANGED <<now, db, user_table, segments, reply, sendnow, procs, chunks, dispatched, reportedS, reportedE, ret, http>>

(* --------------------------- process_broadcast ------------------------- *)
NewChunk(b, user_ids) ==
    [b |-> b, users |-> user_ids, st |-> "queued", retries |-> 0, passes |-> 0,
     status |-> "none", base_s |-> 0, base_e |-> 0, pass |-> Pass0,
     cs |-> 0, ce |-> 0]

RECURSIVE ChunkTasks(_, _)
ChunkTasks(b, parts) ==
    IF parts = << >> THEN << >>
    ELSE <<NewChunk(b, Head(parts))>> \o ChunkTasks(b, Tail(parts))

\* process_broadcast._process up to and including the loop of
\* send_broadcast_chunk.delay: the row is read; unless its status is sending
\* the task returns; else the audience is resolved, split and enqueued.
ProcDispatch(i) ==
    /\ procs[i].st = "queued"
    /\ LET b == procs[i].b IN
         IF db[b].status # "sending"
         THEN /\ procs' = [procs EXCEPT ![i].st = "skipped"]
              /\ UNCHANGED chunks
         ELSE /\ procs' = [procs EXCEPT ![i].st = "enqueued",
                                         ![i].recipients = get_recipients(db[b]),
                                         ![i].seen = ResolverInput(db[b])]
              /\ chunks' = chunks \o ChunkTasks(b, SplitChunks(get_recipients(db[b])))
    /\ UNCHANGED <<now, db, user_table, segments, reply, sendnow, ticks, left, dispatched, reportedS, reportedE, ret, http>>

\* A _process that writes sent before it enqueues the chunks.
ProcCommitBeforeEnqueue(i) ==
    /\ procs[i].st = "queued"
    /\ db[procs[i].b].status = "sending"
    /\ db' = [db EXCEPT ![procs[i].b] = Flush(@, transition_to("sending", "sent", now))]
    /\ procs' = [procs EXCEPT ![i].st = "done"]
    /\ UNCHANGED <<now, user_table, segments, reply, sendnow, ticks, chunks, left, dispatched, reportedS, reportedE, ret, http>>

\* A _process that returns without a write when the audience is empty.
ProcCommitUnlessEmpty(i) ==
    /\ procs[i].st = "enqueued"
    /\ LET b == procs[i].b IN
        /\ ~Locked(b)
        /\ db' = IF procs[i].recipients = << >> THEN db
                 ELSE [db EXCEPT ![b] = Flush(@, transition_to("sending", "sent", now))]
    /\ procs' = [procs EXCEPT ![i].st = "done"]
    /\ UNCHANGED <<now, user_table, segments, reply, sendnow, ticks, chunks, left, dispatched, reportedS, reportedE, ret, http>>

\* The end of _process: broadcast.transition_to(SENT) on the object read with
\* status sending, and commit.
ProcCommit(i) ==
    /\ procs[i].st = "enqueued"
    /\ LET b == procs[i].b IN
        /\ ~Locked(b)
        /\ db' = [db EXCEPT ![b] = Flush(@, transition_to("sending", "sent", now))]
    /\ procs' = [procs EXCEPT ![i].st = "done"]
    /\ UNCHANGED <<now, user_table, segments, reply, sendnow, ticks, chunks, left, dispatched, reportedS, reportedE, ret, http>>

\* get_recipients raises inside _process (a query fails): the exception
\* leaves the task, which has no handler and no autoretry; nothing is written.
ProcResolveFails(i) ==
    /\ procs[i].st = "queued"
    /\ db[procs[i].b].status = "sending"
    /\ left.faults > 0
    /\ left' = [left EXCEPT !.faults = @ - 1]
    /\ procs' = [procs EXCEPT ![i].st = "resolve_failed"]
    /\ UNCHANGED <<now, db, user_table, segments, reply, sendnow, ticks, chunks, dispatched, reportedS, reportedE, ret, http>>

\* send_broadcast_chunk.delay raises in the loop over the chunks (the broker
\* is not reachable): the first k chunks are enqueued, the exception leaves
\* the task before transition_to(SENT).
ProcEnqueueFails(i, k) ==
    /\ procs[i].st = "queued"
    /\ db[procs[i].b].status = "sending"
    /\ left.faults > 0
    /\ LET b == procs[i].b
           parts == SplitChunks(get_recipients(db[b]))
       IN /\ k < Len(parts)
          /\ chunks' = chunks \o ChunkTasks(b, SubSeq(parts, 1, k))
    /\ left' = [left EXCEPT !.faults = @ - 1]
    /\ procs' = [procs EXCEPT ![i].st = "enqueue_failed"]
    /\ UNCHANGED <<now, db, user_table, segments, reply, sendnow, ticks, dispatched, reportedS, reportedE, ret, http>>

(* -------------------------- send_broadcast_chunk ----------------------- *)
\* Celery's autoretry_for = (Exception,) with max_retries: a task that raised
\* is enqueued again while request.retries < max_retries, and fails otherwise.
Retry(chunk) ==
    IF chunk.retries < max_retries
    THEN [chunk EXCEPT !.st = "queued", !.retries = @ + 1]
    ELSE [chunk EXCEPT !.st = "failed"]

\* One pass of _send up to the call of update_broadcast_stats: the broadcast
\* is loaded (its status and counters as committed at this moment), the for
\* loop runs.
\* A pass whose loop raised goes to Celery's retry.
ChunkPass(c) ==
    /\ chunks[c].st = "queued"
    /\ LET b == chunks[c].b
           pass == SendLoop(db[b].media_type, chunks[c].users, 1, Pass0)
           ran == [chunks[c] EXCEPT !.passes = @ + 1, !.pass = pass,
                                    !.status = db[b].status,
                                    !.base_s = db[b].success_count,
                                    !.base_e = db[b].error_count]
       IN chunks' = [chunks EXCEPT ![c] =
                       IF pass.raised THEN Retry(ran)
                       ELSE [ran EXCEPT !.st = "counted"]]
    /\ UNCHANGED <<now, db, user_table, segments, reply, sendnow, ticks, procs, left, dispatched, reportedS, reportedE, ret, http>>

\* services/broadcast_service.py update_broadcast_stats on the object loaded
\* at the start of the pass: success_count += n when n > 0, error_count += n
\* when n > 0; the columns the call makes dirty.
update_broadcast_stats(base_s, base_e, success_increment, error_increment) ==
    (IF success_increment > 0
     THEN [success_count |-> base_s + success_increment] ELSE << >>)
    @@ (IF error_increment > 0
        THEN [error_count |-> base_e + error_increment] ELSE << >>)

\* update_broadcast_stats and db.commit() at the end of a pass.
ChunkCommit(c) ==
    /\ chunks[c].st = "counted"
    /\ LET b == chunks[c].b
           ch == chunks[c]
       IN /\ ~Locked(b)
          /\ db' = [db EXCEPT ![b] =
                      Flush(@, update_broadcast_stats(ch.base_s, ch.base_e,
                                                      ch.pass.s, ch.pass.e))]
          /\ reportedS' = [reportedS EXCEPT ![b] = @ + ch.pass.s]
          /\ reportedE' = [reportedE EXCEPT ![b] = @ + ch.pass.e]
    /\ chunks' = [chunks EXCEPT ![c].st = "done",
                                 ![c].cs = @ + chunks[c].pass.s,
                                 ![c].ce = @ + chunks[c].pass.e]
    /\ UNCHANGED <<now, user_table, segments, reply, sendnow, ticks, procs, left, dispatched, ret, http>>

\* A pass that writes and commits its counts and raises afterwards.
ChunkFaultAfterCommit(c) ==
    /\ chunks[c].st = "counted"
    /\ left.faults > 0
    /\ left' = [left EXCEPT !.faults = @ - 1]
    /\ LET b == chunks[c].b
           ch == chunks[c]
       IN /\ ~Locked(b)
          /\ db' = [db EXCEPT ![b] =
                      Flush(@, update_broadcast_stats(ch.base_s, ch.base_e,
                                                      ch.pass.s, ch.pass.e))]
          /\ reportedS' = [reportedS EXCEPT ![b] = @ + ch.pass.s]
          /\ reportedE' = [reportedE EXCEPT ![b] = @ + ch.pass.e]
    /\ chunks' = [chunks EXCEPT ![c] = Retry([@ EXCEPT !.cs = @ + chunks[c].pass.s,
                                                       !.ce = @ + chunks[c].pass.e])]
    /\ UNCHANGED <<now, user_table, segments, reply, sendnow, ticks, procs, dispatched, ret, http>>

\* A pass that ends with an exception of the database (the commit or a query
\* fails): nothing of the pass is committed and Celery's retry takes over.
ChunkFault(c) ==
    /\ chunks[c].st = "counted"
    /\ left.faults > 0
    /\ left' = [left EXCEPT !.faults = @ - 1]
    /\ chunks' = [chunks EXCEPT ![c] = Retry(@)]
    /\ UNCHANGED <<now, db, user_table, segments, reply, sendnow, ticks, procs, dispatched, reportedS, reportedE, ret, http>>

\* task_acks_late with task_reject_on_worker_lost: the message of a task is
\* acknowledged after the task returned; when the worker is lost after the
\* commit and before the acknowledgement the broker delivers the message
\* again, and the task runs once more from its start.
ChunkRedeliver(c) ==
    /\ chunks[c].st = "done"
    /\ left.faults > 0
    /\ left' = [left EXCEPT !.faults = @ - 1]
    /\ chunks' = [chunks EXCEPT ![c].st = "queued"]
    /\ UNCHANGED <<now, db, user_table, segments, reply, sendnow, ticks, procs, dispatched, reportedS, reportedE, ret, http>>

(* ------------------------------- Next ---------------------------------- *)
Next ==
    \/ Advance
    \/ \E b \in Broadcasts, data \in UpdateData : update_broadcast(b, data)
    \/ \E b \in Broadcasts, t \in 1..MaxNow : schedule_broadcast(b, t)
    \/ \E b \in Broadcasts : send_broadcast_now(b)
    \/ \E b \in Broadcasts : send_broadcast_now_commit(b)
    \/ \E t \in Ticks : TickSelect(t)
    \/ \E t \in Ticks : TickClaim(t)
    \/ \E t \in Ticks : TickClaimFails(t)
    \/ \E t \in Ticks : TickMarkError(t)
    \/ \E i \in DOMAIN procs : ProcDispatch(i)
    \/ \E i \in DOMAIN procs : ProcCommit(i)
    \/ \E c \in DOMAIN chunks : ChunkPass(c)
    \/ \E c \in DOMAIN chunks : ChunkCommit(c)
    \/ \E c \in DOMAIN chunks : ChunkFault(c)

Spec == Init /\ [][Next]_vars

(* ---------------- one delivery, from the claim to the counters --------- *)
\* The state right after a poller run claimed a due broadcast: the row is in
\* sending, one process_broadcast task is queued.  Every user is active now;
\* when the broadcast was created the last user was active too, or had not
\* registered yet.  The media type, the targeting rule and the Bot API's
\* behaviour are drawn.
InitDelivery ==
    /\ now = 1
    /\ user_table = UserTable(Users, Users)
    /\ segments = NoSegments
    /\ reply \in Replies
    /\ \E m \in BroadcastMediaType, tg \in Targets,
          created \in {Users, Users \ {NumUsers}} :
           db = [b \in {1} |->
                   [NewBroadcast(m, tg, UserTable(created, created)) EXCEPT !.status = "sending",
                                                        !.send_at = 1]]
    /\ sendnow = [b \in Broadcasts |-> "none"]
    /\ ticks = [t \in Ticks |-> IdleTick]
    /\ procs = <<NewProc(1)>>
    /\ chunks = << >>
    /\ left = [NoBudget EXCEPT !.faults = MaxPassFaults]
    /\ dispatched = [b \in Broadcasts |-> 1]
    /\ reportedS = [b \in Broadcasts |-> 0]
    /\ reportedE = [b \in Broadcasts |-> 0]
    /\ ret = NoRequest
    /\ http = NoCall

NextDelivery ==
    \/ \E i \in DOMAIN procs : ProcDispatch(i)
    \/ \E i \in DOMAIN procs : ProcResolveFails(i)
    \/ \E i \in DOMAIN procs, k \in 0..NumUsers : ProcEnqueueFails(i, k)
    \/ \E i \in DOMAIN procs : ProcCommit(i)
    \/ \E c \in DOMAIN chunks : ChunkPass(c)
    \/ \E c \in DOMAIN chunks : ChunkCommit(c)
    \/ \E c \in DOMAIN chunks : ChunkFault(c)
    \/ \E c \in DOMAIN chunks : ChunkRedeliver(c)

SpecDelivery == InitDelivery /\ [][NextDelivery]_vars

(* ------------------- poller runs over several broadcasts --------------- *)
\* The rows a broadcast can be in when a poller run meets it: a draft (never
\* scheduled, send_at not set), or scheduled, sending, sent or error with the
\* send_at of its last schedule_broadcast.
TickRows ==
    {NewBroadcast("none", NoFilters, UserTable(Users, Users \ {NumUsers}))}
    \cup {[NewBroadcast("none", NoFilters, UserTable(Users, Users \ {NumUsers}))
              EXCEPT !.status = st, !.send_at = t,
                     !.sent_at = IF st = "sent" THEN 1 ELSE NULL] :
            st \in {"scheduled", "sending", "sent", "error"}, t \in 1..MaxNow}

\* Two broadcasts, each in any of these rows, at time 1; both poller workers idle.
InitTick ==
    /\ now = 1
    /\ user_table = UserTable(Users, Users \ {NumUsers})
    /\ segments = NoSegments
    /\ reply = [u \in Users |-> "ok"]
    /\ db \in [{1, 2} -> TickRows]
    /\ sendnow = [b \in Broadcasts |-> "none"]
    /\ ticks = [t \in Ticks |-> IdleTick]
    /\ procs = << >>
    /\ chunks = << >>
    /\ left = [schedules |-> 0, triggers |-> MaxTriggers, faults |-> MaxFaults]
    /\ dispatched = [b \in Broadcasts |-> 0]
    /\ reportedS = [b \in Broadcasts |-> 0]
    /\ reportedE = [b \in Broadcasts |-> 0]
    /\ ret = NoRequest
    /\ http = NoCall

NextTick ==
    \/ Advance
    \/ \E t \in Ticks : TickSelect(t)
    \/ \E t \in Ticks : TickClaim(t)
    \/ \E t \in Ticks : TickClaimFails(t)
    \/ \E t \in Ticks : TickMarkError(t)
    \/ \E t \in Ticks : TickCommitFails(t)

SpecTick == InitTick /\ [][NextTick]_vars

(* ---------------- admin requests against a running pipeline ------------ *)
\* One broadcast in any of the rows above; the admin requests, the poller
\* and process_broadcast run against it (the chunk tasks are left out: they
\* write the counters only).
InitAdmin ==
    /\ now = 1
    /\ user_table = UserTable(Users, Users \ {NumUsers})
    /\ segments = NoSegments
    /\ reply = [u \in Users |-> "ok"]
    /\ db \in [{1} -> TickRows]
    /\ sendnow = [b \in Broadcasts |-> "none"]
    /\ ticks = [t \in Ticks |-> IdleTick]
    /\ procs = << >>
    /\ chunks = << >>
    /\ left = [schedules |-> MaxSchedules, triggers |-> MaxTriggers,
               faults |-> MaxFaults]
    /\ dispatched = [b \in Broadcasts |-> 0]
    /\ reportedS = [b \in Broadcasts |-> 0]
    /\ reportedE = [b \in Broadcasts |-> 0]
    /\ ret = NoRequest
    /\ http = NoCall

NextAdmin ==
    \/ Advance
    \/ \E b \in Broadcasts, data \in UpdateData : update_broadcast(b, data)
    \/ \E b \in Broadcasts, t \in 1..MaxNow : schedule_broadcast(b, t)
    \/ \E b \in Broadcasts : send_broadcast_now(b)
    \/ \E b \in Broadcasts : send_broadcast_now_commit(b)
    \/ \E t \in Ticks : TickSelect(t)
    \/ \E t \in Ticks : TickClaim(t)
    \/ \E t \in Ticks : TickClaimFails(t)
    \/ \E t \in Ticks : TickMarkError(t)
    \/ \E i \in DOMAIN procs : ProcDispatch(i)
    \/ \E i \in DOMAIN procs : ProcCommit(i)

SpecAdmin == InitAdmin /\ [][NextAdmin]_vars

(* ------------------- the split of an audience into chunks -------------- *)
\* A broadcast in sending to all users, with any subset of the MaxIds users
\* of the table active, and its process_broadcast task queued.
SplitUsers == 1..MaxIds

InitSplit ==
    /\ now = 1
    /\ \E actives \in SUBSET SplitUsers : user_table = UserTable(SplitUsers, actives)
    /\ segments = NoSegments
    /\ reply = [u \in Users |-> "ok"]
    /\ db = [b \in {1} |->
               [NewBroadcast("none", NoFilters, user_table) EXCEPT !.status = "sending",
                                                                !.send_at = 1]]
    /\ sendnow = [b \in Broadcasts |-> "none"]
    /\ ticks = [t \in Ticks |-> IdleTick]
    /\ procs = <<NewProc(1)>>
    /\ chunks = << >>
    /\ left = NoBudget
    /\ dispatched = [b \in Broadcasts |-> 1]
    /\ reportedS = [b \in Broadcasts |-> 0]
    /\ reportedE = [b \in Broadcasts |-> 0]
    /\ ret = NoRequest
    /\ http = NoCall

NextSplit ==
    \/ \E i \in DOMAIN procs : ProcDispatch(i)
    \/ \E i \in DOMAIN procs : ProcCommit(i)

SpecSplit == InitSplit /\ [][NextSplit]_vars

(* ------------- the chunk tasks with Celery's retries only -------------- *)
\* One delivery in which a pass may fail and be retried, and every message is
\* delivered to a worker once.
NextChunks ==
    \/ \E i \in DOMAIN procs : ProcDispatch(i)
    \/ \E i \in DOMAIN procs : ProcCommit(i)
    \/ \E c \in DOMAIN chunks : ChunkPass(c)
    \/ \E c \in DOMAIN chunks : ChunkCommit(c)
    \/ \E c \in DOMAIN chunks : ChunkFault(c)

SpecChunks == InitDelivery /\ [][NextChunks]_vars

(* ------------- process_broadcast with its queue run fairly ------------- *)
NextDispatch ==
    \/ \E i \in DOMAIN procs : ProcDispatch(i)
    \/ \E i \in DOMAIN procs : ProcResolveFails(i)
    \/ \E i \in DOMAIN procs, k \in 0..NumUsers : ProcEnqueueFails(i, k)
    \/ \E i \in DOMAIN procs : ProcCommit(i)

\* A worker takes every task that stays in the queue and runs it to its end;
\* that a query or the broker fails is not owed to anybody.
FairDispatch ==
    /\ WF_vars(\E i \in DOMAIN procs : ProcDispatch(i))
    /\ WF_vars(\E i \in DOMAIN procs : ProcCommit(i))

SpecDispatchFair == InitDelivery /\ [][NextDispatch]_vars /\ FairDispatch

(* ------------------ a delivered broadcast is scheduled again ----------- *)
\* The rows of a broadcast whose episode is over: status sent (sent_at set) or
\* error, with the counters the episode left.
DeliveredRows ==
    {[NewBroadcast(m, NoFilters, UserTable(Users, Users))
         EXCEPT !.status = st, !.send_at = 1,
                !.sent_at = IF st = "sent" THEN 1 ELSE NULL,
                !.success_count = s, !.error_count = e] :
       m \in {"none", "photo"}, st \in {"sent", "error"},
       s \in 0..NumUsers, e \in 0..NumUsers}

InitRetry ==
    /\ now = 1
    /\ user_table = UserTable(Users, Users)
    /\ segments = NoSegments
    /\ reply = [u \in Users |-> "ok"]
    /\ db \in [{1} -> DeliveredRows]
    /\ sendnow = [b \in Broadcasts |-> "none"]
    /\ ticks = [t \in Ticks |-> IdleTick]
    /\ procs = << >>
    /\ chunks = << >>
    /\ left = [NoBudget EXCEPT !.schedules = 1, !.triggers = 1]
    /\ dispatched = [b \in Broadcasts |-> 0]
    /\ reportedS = [b \in Broadcasts |-> 0]
    /\ reportedE = [b \in Broadcasts |-> 0]
    /\ ret = NoRequest
    /\ http = NoCall

NextRetry ==
    \/ Advance
    \/ \E b \in Broadcasts, send_at \in 1..MaxNow : schedule_broadcast(b, send_at)
    \/ \E t \in Ticks : TickSelect(t)
    \/ \E t \in Ticks : TickClaim(t)
    \/ \E i \in DOMAIN procs : ProcDispatch(i)
    \/ \E i \in DOMAIN procs : ProcCommit(i)
    \/ \E c \in DOMAIN chunks : ChunkPass(c)
    \/ \E c \in DOMAIN chunks : ChunkCommit(c)

SpecRetry == InitRetry /\ [][NextRetry]_vars

(* ----------------------- TelegramClient.make_request ------------------ *)
\* The default of the parameter retry_count.
retry_count == 3

\* What the API does to one POST: it answers ok; it answers HTTP 200 with
\* ok = false and an error_code (400, 403, 404, 429, 500); it answers with an
\* HTTP error status, which response.raise_for_status() raises as
\* HTTPStatusError; or the transport fails (timeout, connection error).
Answers == {"ok", "api_400", "api_403", "api_404", "api_429", "api_500",
            "http_status", "transport"}

\* `if error_code in [400, 403, 404]`.
DoNotRetry == {"api_400", "api_403", "api_404"}

RECURSIVE Pow2(_)
Pow2(n) == IF n = 0 THEN 1 ELSE 2 * Pow2(n - 1)

\* The body of the try statement in iteration `attempt` (0-based): it
\* returns, sleeps and continues, or raises an exception of the class named.
TryRequest(answer, attempt) ==
    CASE answer = "ok"          -> "return"
      [] answer = "http_status" -> "HTTPStatusError"
      [] answer = "transport"   -> "Exception"
      [] answer \in DoNotRetry  -> "Exception"
      [] answer = "api_500"     -> IF attempt < retry_count - 1 THEN "continue"
                                   ELSE "Exception"
      [] OTHER                  -> "Exception"

\* One iteration of the for loop with its two except clauses, both of which
\* sleep and continue while attempt < retry_count - 1 and re-raise otherwise.
\* The exceptions the try body raises itself are caught by `except Exception`.
Iteration(answer, attempt) ==
    LET r == TryRequest(answer, attempt) IN
      IF r \in {"HTTPStatusError", "Exception"}
      THEN IF attempt < retry_count - 1 THEN "continue" ELSE "raise"
      ELSE r

\* The iteration returns result['result'].
RequestReturns ==
    /\ http.st = "running"
    /\ http.attempt < retry_count
    /\ Iteration(http.answers[http.attempt + 1], http.attempt) = "return"
    /\ http' = [http EXCEPT !.attempt = @ + 1, !.st = "returned"]
    /\ UNCHANGED <<now, db, user_table, segments, reply, sendnow, ticks, procs, chunks, left, dispatched, reportedS, reportedE, ret>>

\* The iteration ends in asyncio.sleep(2 ** attempt) and continue.
RequestRetries ==
    /\ http.st = "running"
    /\ http.attempt < retry_count
    /\ Iteration(http.answers[http.attempt + 1], http.attempt) = "continue"
    /\ http' = [http EXCEPT !.attempt = @ + 1,
                            !.slept = Append(@, Pow2(http.attempt))]
    /\ UNCHANGED <<now, db, user_table, segments, reply, sendnow, ticks, procs, chunks, left, dispatched, reportedS, reportedE, ret>>

\* The iteration lets its exception out of make_request.
RequestRaises ==
    /\ http.st = "running"
    /\ http.attempt < retry_count
    /\ Iteration(http.answers[http.attempt + 1], http.attempt) = "raise"
    /\ http' = [http EXCEPT !.attempt = @ + 1, !.st = "raised"]
    /\ UNCHANGED <<now, db, user_table, segments, reply, sendnow, ticks, procs, chunks, left, dispatched, reportedS, reportedE, ret>>

\* A call of make_request with the default retry_count is about to start;
\* what the API will do to each of its POSTs is drawn.
InitRequest ==
    /\ now = 1
    /\ user_table = UserTable(Users, Users)
    /\ segments = NoSegments
    /\ reply = [u \in Users |-> "ok"]
    /\ db = [b \in {1} |-> NewBroadcast("none", NoFilters, user_table)]
    /\ sendnow = [b \in Broadcasts |-> "none"]
    /\ ticks = [t \in Ticks |-> IdleTick]
    /\ procs = << >>
    /\ chunks = << >>
    /\ left = NoBudget
    /\ dispatched = [b \in Broadcasts |-> 0]
    /\ reportedS = [b \in Broadcasts |-> 0]
    /\ reportedE = [b \in Broadcasts |-> 0]
    /\ ret = NoRequest
    /\ \E answers \in [1..retry_count -> Answers] :
           http = [NoCall EXCEPT !.answers = answers, !.st = "running"]

NextRequest ==
    \/ RequestReturns
    \/ RequestRetries
    \/ RequestRaises

SpecRequest == InitRequest /\ [][NextRequest]_vars

(* ------------------------ the audience of a broadcast ------------------ *)
\* A table of users: 1..3 are active and have the tag vip, 4 and 5 are active
\* and have not, 6..10 are blocked (6 and 7 have the tag vip), 11 is active
\* test data with the tag vip.  No user has more than one tag.
AudienceUsers ==
    [u \in 1..11 |->
       [status |-> IF u <= 5 \/ u = 11 THEN "active" ELSE "blocked",
        is_test |-> (u = 11),
        tags |-> IF u \in {1, 2, 3, 6, 7, 11} THEN {"vip"}
                 ELSE IF u = 4 THEN {"new"} ELSE {},
        is_subscribed |-> (u \in {1, 3, 4, 6}),
        source |-> IF u \in {1, 6} THEN "Ads" ELSE "organic",
        source_normalized |-> IF u \in {1, 6} THEN "ads" ELSE "organic",
        gender |-> IF u \in {2, 3, 7} THEN "female"
                   ELSE IF u \in {1, 4} THEN "male" ELSE "unknown",
        birthday_month |-> IF u \in {1, 2, 6} THEN 5
                           ELSE IF u = 4 THEN 12 ELSE NULL,
        created_at |-> IF u <= 5 THEN u ELSE 1]]

\* The dicts the model draws from for a segment's definition and for a
\* broadcast's filters (schemas/broadcast.py BroadcastBase.filters is an
\* Optional[dict] that nothing validates): every key evaluate_segment knows,
\* an empty tags list, and a key it does not know (city).
Definitions ==
    {NoFilters,
     [status |-> "active"],
     [status |-> "blocked"],
     [status |-> "active", tags |-> {"vip"}],
     [tags |-> {"vip", "new"}],
     [tags |-> {}],
     [is_subscribed |-> TRUE],
     [source |-> "Ads"],
     [source_normalized |-> "ads"],
     [gender |-> "female"],
     [birthday_month |-> 5],
     [created_after |-> 2, created_before |-> 4],
     [city |-> "Omsk"]}

SegmentIds == {1}

\* A draft as create_broadcast_endpoint stored it, with the filters and the
\* segment_id of the request; segment 1 exists.
InitAudience ==
    /\ now = 1
    /\ user_table = AudienceUsers
    /\ segments \in [SegmentIds -> [definition : Definitions, deleted : {FALSE},
                                     referrers : {{}}]]
    /\ reply = [u \in Users |-> "ok"]
    /\ \E filters \in Definitions, segment_id \in {NULL} \cup SegmentIds :
           db = [b \in {1} |-> [NewBroadcast("none", filters, user_table)
                                   EXCEPT !.segment_id = segment_id]]
    /\ sendnow = [b \in Broadcasts |-> "none"]
    /\ ticks = [t \in Ticks |-> IdleTick]
    /\ procs = << >>
    /\ chunks = << >>
    /\ left = [NoBudget EXCEPT !.schedules = 1, !.triggers = 2]
    /\ dispatched = [b \in Broadcasts |-> 0]
    /\ reportedS = [b \in Broadcasts |-> 0]
    /\ reportedE = [b \in Broadcasts |-> 0]
    /\ ret = NoRequest
    /\ http = NoCall

\* The row of a segment is deleted.  models/broadcast.py declares
\* broadcasts.segment_id with ondelete="SET NULL": where the database enforces
\* the foreign key the referring broadcasts get segment_id NULL, where it does
\* not they keep the id of a segment that is gone.  `referrers` keeps the
\* broadcasts that referred to the segment.
DeleteSegment(s, set_null) ==
    /\ ~segments[s].deleted
    /\ segments' = [segments EXCEPT
                      ![s].deleted = TRUE,
                      ![s].referrers = {b \in Broadcasts : db[b].segment_id = s}]
    /\ db' = [b \in Broadcasts |->
                IF set_null /\ db[b].segment_id = s
                THEN [db[b] EXCEPT !.segment_id = NULL]
                ELSE db[b]]
    /\ UNCHANGED <<now, user_table, reply, sendnow, ticks, procs, chunks, left, dispatched, reportedS, reportedE, ret, http>>

NextAudience ==
    \/ Advance
    \/ \E b \in Broadcasts, send_at \in 1..MaxNow : schedule_broadcast(b, send_at)
    \/ \E t \in Ticks : TickSelect(t)
    \/ \E t \in Ticks : TickClaim(t)
    \/ \E i \in DOMAIN procs : ProcDispatch(i)
    \/ \E i \in DOMAIN procs : ProcCommit(i)
    \/ \E s \in DOMAIN segments, set_null \in BOOLEAN : DeleteSegment(s, set_null)

SpecAudience == InitAudience /\ [][NextAudience]_vars

(* ============================== claims ================================= *)

\* The (old, new) status pairs of the table in Broadcast.can_transition_to.
LegalPairs ==
    {<<"draft", "scheduled">>, <<"scheduled", "sending">>, <<"sending", "sent">>,
     <<"sending", "error">>, <<"sent", "scheduled">>, <<"error", "scheduled">>}

\* C1: every change of a broadcast's committed status is one of draft->scheduled,
\* scheduled->sending, sending->sent, sending->error, sent->scheduled,
\* error->scheduled.
C1_OnlyLegalStatusChanges ==
    [][\A b \in Broadcasts :
          db'[b].status # db[b].status
              => <<db[b].status, db'[b].status>> \in LegalPairs]_vars

\* C2: for one due occurrence of a scheduled broadcast at most one
\* process_broadcast dispatch is enqueued, however many poller runs and
\* send-now requests race for it.
C2_OneDispatchPerDueOccurrence ==
    \A b \in Broadcasts : dispatched[b] <= 1

\* C4: the counters hold every delta a chunk worker committed: no increment
\* of success_count or error_count is lost, in any interleaving of the workers.
C4_NoIncrementLost ==
    \A b \in Broadcasts :
        /\ db[b].success_count = reportedS[b]
        /\ db[b].error_count = reportedE[b]

\* C5: while a broadcast is being delivered, success_count + error_count never
\* exceeds recipient_count.
C5_CountersWithinRecipientCount ==
    \A b \in Broadcasts :
        db[b].status \in {"sending", "sent"}
            => db[b].success_count + db[b].error_count <= db[b].recipient_count

ChunksOf(b) == {c \in DOMAIN chunks : chunks[c].b = b}

\* Every chunk task of the broadcast's dispatch has been enqueued and has
\* committed its counts.
AllChunksReported(b) ==
    /\ \E i \in DOMAIN procs : procs[i].b = b /\ procs[i].st = "done"
    /\ \A i \in DOMAIN procs : procs[i].b = b => procs[i].st \in {"done", "skipped"}
    /\ ChunksOf(b) # {}
    /\ \A c \in ChunksOf(b) : chunks[c].st = "done"

\* C6: once every chunk task of a broadcast has reported completion,
\* success_count + error_count equals recipient_count.
C6_CountersReachRecipientCount ==
    \A b \in Broadcasts :
        AllChunksReported(b)
            => db[b].success_count + db[b].error_count = db[b].recipient_count

\* A chunk task whose pass ran to its end and was committed.
Completed(c) == chunks[c].st = "done"
\* A chunk task that will not run again.
Stopped(c) == chunks[c].st \in {"done", "failed"}

\* C7: a completed pass made exactly one outbound send call for each recipient
\* of the chunk.
C7_OneAttemptPerRecipient ==
    \A c \in DOMAIN chunks :
        Completed(c) => chunks[c].pass.sends = Len(chunks[c].users)

\* C8: a recipient who has blocked the bot (the Bot API answers its send with
\* 403) is counted in error_count by the pass that handled it.
C8_BlockedCountedAsError ==
    \A c \in DOMAIN chunks :
        Completed(c) =>
            \A k \in DOMAIN chunks[c].users :
                reply[chunks[c].users[k]] = "blocked"
                    => chunks[c].users[k] \in chunks[c].pass.bad

Throttled == \A u \in Users : reply[u] = "rate_limited"

\* C9: when the Bot API answers every send with 429, a chunk task that has
\* stopped has all its recipients in error_count.
C9_ExhaustedChunkCountedAsErrors ==
    \A c \in DOMAIN chunks :
        (Throttled /\ Stopped(c)) => chunks[c].ce = Len(chunks[c].users)

\* C10: when the Bot API answers every send with 429, a chunk is run again
\* until its budget is used: a chunk task that has stopped has made
\* 1 + max_retries passes, and no chunk task makes more.
C10_RerunUntilBudgetUsed ==
    \A c \in DOMAIN chunks :
        /\ chunks[c].passes <= 1 + max_retries
        /\ (Throttled /\ Stopped(c)) => chunks[c].passes = 1 + max_retries

\* The recipient's iteration of the for loop ends in an exception that is
\* neither the 403 nor the 429 of the Bot API.
OtherError(media_type, u) ==
    TryBody(media_type, reply[u]).result \notin {"success", "blocked", "rate_limited"}

Recipients(c) == {chunks[c].users[k] : k \in DOMAIN chunks[c].users}

C12_ChunkDeltasAppliedOnce ==
    \A c \in DOMAIN chunks :
        chunks[c].cs + chunks[c].ce <= Len(chunks[c].users)

RECURSIVE ChunkIds(_)
\* The user ids of a sequence of chunk tasks, concatenated in order.
ChunkIds(tasks) ==
    IF tasks = << >> THEN << >>
    ELSE Head(tasks).users \o ChunkIds(Tail(tasks))

\* C13: process_broadcast enqueues ceil(N / CHUNK_SIZE) chunk tasks for a
\* recipient list of length N: no chunk has more than CHUNK_SIZE ids, every
\* chunk but the last has exactly CHUNK_SIZE, the chunks concatenated in order
\* are the recipient list, and every recipient is in exactly one chunk.
C13_SplitIntoCeilChunks ==
    \A i \in DOMAIN procs :
        procs[i].st \in {"enqueued", "done"} =>
            LET ids == get_recipients(db[procs[i].b])
                N == Len(ids)
            IN /\ Len(chunks) = (N + CHUNK_SIZE - 1) \div CHUNK_SIZE
               /\ \A c \in DOMAIN chunks :
                     /\ Len(chunks[c].users) >= 1
                     /\ Len(chunks[c].users) <= CHUNK_SIZE
                     /\ c < Len(chunks) => Len(chunks[c].users) = CHUNK_SIZE
               /\ ChunkIds(chunks) = ids
               /\ \A u \in active :
                     Cardinality({c \in DOMAIN chunks : u \in Recipients(c)}) = 1

\* Five recipients with chunk size two: three chunks of 2, 2 and 1 ids (the
\* 1000, 1000, 500 of 2500 recipients, scaled).
C13_Witness ==
    /\ procs[1].st = "enqueued"
    /\ Cardinality(active) = 2 * CHUNK_SIZE + 1
    /\ Len(chunks) = 3
    /\ Len(chunks[1].users) = CHUNK_SIZE
    /\ Len(chunks[2].users) = CHUNK_SIZE
    /\ Len(chunks[3].users) = 1

C15_ResolveFailureEndsInError ==
    \A i \in DOMAIN procs :
        procs[i].st = "resolve_failed" => db[procs[i].b].status = "error"

\* C16: a process_broadcast whose enqueue of a chunk task failed leaves the
\* broadcast in error, not in sending with a part of its chunks enqueued.
C16_EnqueueFailureEndsInError ==
    \A i \in DOMAIN procs :
        procs[i].st = "enqueue_failed" =>
            /\ db[procs[i].b].status # "sent"
            /\ db[procs[i].b].status = "error"

\* C17: a poller run that failed on one broadcast of its list still handles
\* the broadcasts after it: no run ends while broadcasts remain in its list
\* after the current one.
C17_RunHandlesRestOfList ==
    [][\A t \in Ticks :
          (ticks[t].pc # "idle" /\ ticks'[t].pc = "idle")
              => Len(ticks[t].todo) = 1]_vars

\* The step is one of a poller run and triggers broadcast b: it moves b to
\* sending or enqueues a process_broadcast task for b.
TickTriggers(b) ==
    /\ ticks' # ticks
    /\ \/ db'[b].status = "sending" /\ db[b].status # "sending"
       \/ Len(procs') > Len(procs) /\ procs'[Len(procs')].b = b

\* C18: the poller triggers a broadcast only while its status is scheduled
\* and its send_at is set and not later than now.
C18_OnlyDueScheduledTriggered ==
    [][\A b \in Broadcasts :
          TickTriggers(b) => /\ db[b].status = "scheduled"
                             /\ db[b].send_at # NULL
                             /\ db[b].send_at <= now]_vars

\* The status a request asks for.
Requested(op) == IF op = "schedule_broadcast" THEN "scheduled" ELSE "sending"

\* C19: a schedule_broadcast or send_broadcast_now request for a transition
\* that is not in the table returns None, leaves the row as it is and enqueues
\* no process_broadcast task (a request for a transition of the table returns
\* the broadcast); transition_to to a status the table does not allow makes no
\* column dirty.
C19_RejectedRequestChangesNothing ==
    /\ [](\A st, new \in BroadcastStatus :
             <<st, new>> \notin LegalPairs => transition_to(st, new, now) = << >>)
    /\ [][\A b \in Broadcasts :
             (/\ ret' # ret
              /\ ret'.b = b
              /\ ret'.op \in {"schedule_broadcast", "send_broadcast_now"}) =>
                 IF <<db[b].status, Requested(ret'.op)>> \in LegalPairs
                 THEN ret'.value = "broadcast"
                 ELSE /\ ret'.value = "None"
                      /\ db'[b] = db[b]
                      /\ procs' = procs
                      /\ sendnow' = sendnow]_vars

\* A send-now request for a broadcast in sent was rejected: the broadcast is
\* still in sent and its one process_broadcast task is the one that ran.
C19_Witness ==
    /\ ret = Returned("send_broadcast_now", 1, "None")
    /\ db[1].status = "sent"
    /\ Len(procs) = 1
    /\ procs[1].st = "done"

\* C20: the status of a broadcast in sent or error changes only by an accepted
\* schedule_broadcast request, to scheduled; and process_broadcast enqueues
\* chunk tasks only for a broadcast in sending.
C20_TerminalLeftOnlyBySchedule ==
    [][/\ \A b \in Broadcasts :
             (db[b].status \in {"sent", "error"} /\ db'[b].status # db[b].status)
                 => /\ db'[b].status = "scheduled"
                    /\ ret' = Returned("schedule_broadcast", b, "broadcast")
       /\ Len(chunks') > Len(chunks)
             => db[chunks'[Len(chunks')].b].status = "sending"]_vars

\* The fields of a row that update_broadcast does not set.
KeptByUpdate == {"status", "send_at", "sent_at", "recipient_count",
                 "success_count", "error_count"}

\* C21: update_broadcast changes content and targeting fields of a draft only:
\* a request for a broadcast in another status returns None and changes no
\* field, a content or targeting field changes only by an accepted request
\* for a draft, and no request changes the status or another field.
C21_UpdateOnlyChangesDraft ==
    [][\A b \in Broadcasts :
          /\ (ret' # ret /\ ret'.b = b /\ ret'.op = "update_broadcast") =>
                 /\ \A col \in KeptByUpdate : db'[b][col] = db[b][col]
                 /\ IF db[b].status = "draft"
                    THEN ret'.value = "broadcast"
                    ELSE ret'.value = "None" /\ db'[b] = db[b]
          /\ (\E col \in DOMAIN db[b] \ KeptByUpdate : db'[b][col] # db[b][col]) =>
                 /\ db[b].status = "draft"
                 /\ db'[b].status = "draft"
                 /\ ret' = Returned("update_broadcast", b, "broadcast")]_vars

\* An update request for a broadcast in sending was rejected.
C21_Witness ==
    /\ ret = Returned("update_broadcast", 1, "None")
    /\ db[1].status = "sending"

\* The broadcasts that referred to a segment that has been deleted.
Orphaned == {b \in Broadcasts : \E s \in DOMAIN segments :
                 segments[s].deleted /\ b \in segments[s].referrers}

\* C22: once the segment a broadcast referred to is deleted (the reference
\* dangles or was set to NULL) the audience of the broadcast is empty: no
\* chunk is enqueued for it any more.
C22_DeletedSegmentEmptyAudience ==
    [][\A b \in Orphaned :
          {c \in DOMAIN chunks' : chunks'[c].b = b} = {c \in DOMAIN chunks : chunks[c].b = b}]_vars

\* The users whose ids the chunks of broadcast b hold.
Enqueued(b) == {u \in DOMAIN user_table : \E c \in DOMAIN chunks :
                   chunks[c].b = b /\ u \in Recipients(c)}

\* The audience of broadcast b was resolved and enqueued.
Resolved(b) == \E i \in DOMAIN procs : procs[i].b = b /\ procs[i].st \in {"enqueued", "done"}

\* C23: every user of a resolved audience has status active and the test
\* flag of the broadcast, whatever the segment's definition and the filters
\* hold.
C23_AudienceActiveAndFlagMatching ==
    \A b \in Broadcasts : \A u \in Enqueued(b) :
        /\ user_table[u].status = "active"
        /\ user_table[u].is_test = db[b].is_test

C23_Witness ==
    /\ Resolved(1)
    /\ db[1].segment_id = NULL
    /\ db[1].filters = [tags |-> {"vip", "new"}]
    /\ Enqueued(1) = {1, 2, 3, 4}

\* The keys of a definition the specification names.
KnownKeys == {"status", "is_subscribed", "tags", "source", "source_normalized",
              "gender", "birthday_month", "created_after", "created_before"}

\* User u satisfies every predicate present in the definition; the tags
\* predicate holds when u has at least one of the listed tags.
Satisfies(u, definition) ==
    /\ "status" \in DOMAIN definition => user_table[u].status = definition.status
    /\ "is_subscribed" \in DOMAIN definition =>
           user_table[u].is_subscribed = definition.is_subscribed
    /\ "tags" \in DOMAIN definition => definition.tags \cap user_table[u].tags # {}
    /\ "source" \in DOMAIN definition => user_table[u].source = definition.source
    /\ "source_normalized" \in DOMAIN definition =>
           user_table[u].source_normalized = definition.source_normalized
    /\ "gender" \in DOMAIN definition => user_table[u].gender = definition.gender
    /\ "birthday_month" \in DOMAIN definition =>
           user_table[u].birthday_month = definition.birthday_month
    /\ "created_after" \in DOMAIN definition =>
           user_table[u].created_at >= definition.created_after
    /\ "created_before" \in DOMAIN definition =>
           user_table[u].created_at <= definition.created_before

\* C24: the audience resolved from filters of known keys is exactly the set
\* of active, flag-matching users that satisfy every predicate present.
C24_AudienceIsExactlyTheMatchingUsers ==
    \A b \in Broadcasts :
        (Resolved(b) /\ db[b].segment_id = NULL /\ b \notin Orphaned
         /\ DOMAIN db[b].filters \subseteq KnownKeys) =>
            Enqueued(b) = {u \in DOMAIN user_table :
                              /\ user_table[u].status = "active"
                              /\ user_table[u].is_test = db[b].is_test
                              /\ Satisfies(u, db[b].filters)}

\* C25: the audience of a broadcast with a segment and filters is the one the
\* segment's definition alone selects.
C25_SegmentTakesPrecedence ==
    \A b \in Broadcasts :
        (Resolved(b) /\ db[b].segment_id \in DOMAIN segments
         /\ ~segments[db[b].segment_id].deleted) =>
            Enqueued(b) = evaluate_segment(
                              {u \in DOMAIN user_table :
                                   /\ user_table[u].status = "active"
                                   /\ user_table[u].is_test = db[b].is_test},
                              segments[db[b].segment_id].definition)

C25_Witness ==
    /\ Resolved(1)
    /\ db[1].segment_id = 1
    /\ ~segments[1].deleted
    /\ segments[1].definition = [tags |-> {"vip", "new"}]
    /\ db[1].filters = [is_subscribed |-> TRUE]
    /\ Enqueued(1) = {1, 2, 3, 4}

\* C26: a broadcast whose filters hold an unknown key is rejected at creation:
\* no broadcast with such filters leaves draft or gets an audience resolved.
C26_UnknownKeyNeverLeavesDraft ==
    \A b \in Broadcasts :
        (DOMAIN db[b].filters \ KnownKeys # {}) =>
            db[b].status = "draft" /\ ~Resolved(b)

\* C27: once process_broadcast has resolved the audience and enqueued the
\* chunks, recipient_count is the number of resolved recipients.
C27_RecipientCountSetAtDispatch ==
    \A i \in DOMAIN procs :
        procs[i].st \in {"enqueued", "done"} =>
            db[procs[i].b].recipient_count = Len(get_recipients(db[procs[i].b]))

\* C28: the committed success_count and error_count of a broadcast never
\* decrease from one state of the record to the next.
C28_CountersNeverDecrease ==
    [][\A b \in Broadcasts :
          /\ db'[b].success_count >= db[b].success_count
          /\ db'[b].error_count >= db[b].error_count]_vars

\* C29: a recipient is counted as a success only when a send was made to it
\* and the Bot API accepted it: the successes of a pass are not more than its
\* sends, and every recipient counted as a success has an accepted send.
C29_SuccessOnlyAfterSend ==
    \A c \in DOMAIN chunks :
        chunks[c].passes >= 1 =>
            /\ chunks[c].pass.s <= chunks[c].pass.sends
            /\ \A u \in chunks[c].pass.ok : reply[u] = "ok"

\* C30: a pass with a recipient whose send runs into the timeout raises, so
\* that the chunk is retried, and does not count that recipient as an error.
C30_TimeoutRetriesChunk ==
    \A c \in DOMAIN chunks :
        \A u \in Recipients(c) :
            (chunks[c].passes >= 1 /\ reply[u] = "timeout") =>
                /\ chunks[c].pass.raised
                /\ u \notin chunks[c].pass.bad

\* The calls of get_recipients that returned: the process_broadcast tasks that
\* resolved an audience.
Resolutions == {i \in DOMAIN procs : procs[i].st \in {"enqueued", "done"}}

C32_TerminalHasSentAt ==
    \A b \in Broadcasts : db[b].status \in {"sent", "error"} => db[b].sent_at # NULL

\* A process_broadcast task of broadcast b is in the queue or running.
Pending(b) == \E i \in DOMAIN procs : procs[i].b = b /\ procs[i].st \in {"queued", "enqueued"}

\* C33: no process_broadcast task reads a status older than the claim that
\* enqueued it: no task returns without dispatching and leaves the broadcast
\* in sending with no task pending and no request or poller run at work.
C33_ClaimVisibleToTask ==
    \A i \in DOMAIN procs :
        procs[i].st = "skipped" =>
            ~ /\ db[procs[i].b].status = "sending"
              /\ ~Pending(procs[i].b)
              /\ sendnow[procs[i].b] = "none"
              /\ \A t \in Ticks : ticks[t].pc = "idle"

\* C34: with the queued tasks run fairly, a broadcast in sending eventually
\* reaches sent or error.
C34_SendingEventuallyTerminal ==
    \A b \in {1} : (db[b].status = "sending") ~> (db[b].status \in {"sent", "error"})

\* C35: in one sending episode of a broadcast at most one execution of
\* process_broadcast enqueues chunk tasks.
C35_ChunksEnqueuedOncePerEpisode ==
    \A b \in Broadcasts :
        Cardinality({i \in Resolutions : procs[i].b = b /\ procs[i].recipients # << >>}) <= 1

\* The columns schedule_broadcast writes.
WrittenBySchedule == {"status", "send_at"}

\* C36: a retry (sent -> scheduled or error -> scheduled) changes status and
\* send_at only: recipient_count, the counters and sent_at keep their values.
C36_RetryKeepsCounters ==
    [][\A b \in Broadcasts :
          (db[b].status \in {"sent", "error"} /\ db'[b].status = "scheduled") =>
              /\ \A col \in DOMAIN db[b] \ WrittenBySchedule : db'[b][col] = db[b][col]
              /\ db'[b].send_at # NULL
              /\ ret' = Returned("schedule_broadcast", b, "broadcast")]_vars

\* The first pass of the next episode loaded the totals of the previous one.
C36_Witness ==
    /\ ret = Returned("schedule_broadcast", 1, "broadcast")
    /\ db[1].sent_at # NULL
    /\ \A d \in DOMAIN chunks : chunks[d].st # "done"
    /\ \E c \in DOMAIN chunks : chunks[c].passes >= 1 /\ chunks[c].base_s = NumUsers

\* C37: the counters of a broadcast change only when a pass that ran to its
\* end commits; a pass that raised adds nothing, so over all retries of a
\* chunk no more counts are added than the chunk has recipients.
C37_AbortedPassAddsNothing ==
    /\ [](\A c \in DOMAIN chunks : chunks[c].cs + chunks[c].ce <= Len(chunks[c].users))
    /\ [][\A b \in Broadcasts :
             (db'[b].success_count # db[b].success_count
              \/ db'[b].error_count # db[b].error_count) =>
                 \E c \in DOMAIN chunks :
                     /\ chunks[c].b = b
                     /\ chunks[c].st = "counted" /\ ~chunks[c].pass.raised
                     /\ chunks'[c].st = "done"]_vars

\* A chunk whose pass failed was retried and then counted its recipients.
C37_Witness ==
    \E c \in DOMAIN chunks :
        /\ chunks[c].retries >= 1
        /\ chunks[c].st = "done"
        /\ chunks[c].cs + chunks[c].ce = Len(chunks[c].users)
        /\ Len(chunks[c].users) = CHUNK_SIZE

\* C38: when get_recipients returned no recipient, process_broadcast enqueues
\* no chunk task and ends by writing sent and sent_at and nothing else: the
\* counters keep their values.
C38_EmptyAudienceGoesToSent ==
    /\ [](\A i \in Resolutions :
            (procs[i].recipients = << >> /\ Cardinality(Resolutions) = 1) =>
                /\ ChunksOf(procs[i].b) = {}
                /\ procs[i].st = "done" => db[procs[i].b].status = "sent")
    /\ [][\A i \in DOMAIN procs :
             (procs[i].st = "enqueued" /\ procs[i].recipients = << >>
              /\ procs'[i].st = "done") =>
                 /\ db[procs[i].b].status = "sending"
                 /\ db' = [db EXCEPT ![procs[i].b].status = "sent",
                                     ![procs[i].b].sent_at = now]
                 /\ now # NULL
                 /\ chunks' = chunks]_vars

C38_Witness ==
    /\ procs[1].st = "done"
    /\ procs[1].recipients = << >>
    /\ db[1].status = "sent" /\ db[1].sent_at = now
    /\ db[1].success_count = 0 /\ db[1].error_count = 0
    /\ chunks = << >>

\* C39: make_request does not retry after an answer with error_code 400, 403
\* or 404: that attempt is its last, it raises, and it did not sleep after it.
C39_ClientErrorNotRetried ==
    \A k \in 1..http.attempt :
        http.answers[k] \in DoNotRetry =>
            /\ http.attempt = k
            /\ http.st = "raised"
            /\ Len(http.slept) = k - 1

\* C40: a broadcast in scheduled has send_at set: only schedule_broadcast
\* enters scheduled, it writes send_at, and nothing clears send_at.
C40_ScheduledHasSendAt ==
    /\ [](\A b \in Broadcasts : db[b].status = "scheduled" => db[b].send_at # NULL)
    /\ [][\A b \in Broadcasts :
             /\ (db[b].status # "scheduled" /\ db'[b].status = "scheduled") =>
                    /\ ret' = Returned("schedule_broadcast", b, "broadcast")
                    /\ db'[b].send_at # NULL
             /\ db[b].send_at # NULL => db'[b].send_at # NULL]_vars

C40_Witness ==
    /\ ret = Returned("schedule_broadcast", 1, "broadcast")
    /\ db[1].status = "scheduled"
    /\ db[1].send_at = MaxNow
    /\ db[1].sent_at = NULL
    /\ dispatched[1] = 0

====
